---- MODULE Spec2Model ----
(***************************************************************************)
(* Model of the fetch-and-reconcile pipeline of the EigenLayer restaking   *)
(* backend: the sqlite persistence store (databaseService.js), the fetch   *)
(* orchestrator (fetchData.js), the upstream adapter (eigenLayerService.js)*)
(* and the cron scheduler (scheduler.js).                                  *)
(*                                                                         *)
(* JavaScript runs one callback at a time, so an action is the code that   *)
(* runs between two suspension points (await of I/O, timer callbacks).     *)
(* Times are in seconds.                                                   *)
(***************************************************************************)
EXTENDS Integers, Sequences, FiniteSets, TLC

----------------------------------------------------------------------------
(* Bounds of the model *)

\* fetchAllData invocations explored (timer, deferred initial, manual).
MaxCalls == 2
\* clock ticks explored.
MaxTicks == 1
\* store operations issued directly by store clients.
MaxOps == 4
\* deferred initial refreshes (setTimeout) that may be outstanding.
MaxDeferred == 1
MaxUpstreamChanges == 1

----------------------------------------------------------------------------
(* Values *)

\* JavaScript null/undefined where text, a number, a record is expected.
NULL == "NULL"
NoAmount == 0 - 1
NoRecord == [none |-> TRUE]

\* Date.now() at the first state, and the step of one clock tick (one hour).
StartTime == 30 * 24 * 60 * 60
TickStep == 60 * 60

\* new Date(..).toISOString(): text of the form 2024-01-15T10:30:00.000Z
IsoTime(t) == [fmt |-> "iso", t |-> t]
\* sqlite CURRENT_TIMESTAMP: text of the form 2024-01-15 10:30:00
SqlTime(t) == [fmt |-> "sqlite", t |-> t]

----------------------------------------------------------------------------
(* State *)

VARIABLES
  clock,               \* Date.now() / CURRENT_TIMESTAMP, in seconds
  subgraph,            \* what the subgraph endpoint answers now: deposits, operators
  upstreamChanges,     \* how often that answer has changed
  db,                  \* DatabaseService.db: "null", "open" or "closed"
  database,            \* the sqlite file: schema flag, tables, AUTOINCREMENT sequence
  pendingOps,          \* store calls of other callers issued and not yet completed
  lastOp,              \* the store call that completed last, with its outcome
  opCount,             \* store calls issued so far by other callers
  initsInFlight,       \* initializeDatabase calls of other callers awaiting createTables
  isRunning,           \* DataFetcher.isRunning, the cycle-in-progress flag
  calls,               \* the fetchAllData invocations, each with its position and tasks
  schedulerIsRunning,  \* Scheduler.isRunning
  tasks,               \* Scheduler.tasks: name -> cron task (0: no entry)
  cronTimers,          \* the cron tasks that are started and not stopped
  deferred,            \* setTimeout callbacks of start() that have not run yet
  refreshInterval,     \* process.env.DATA_REFRESH_INTERVAL (NULL: unset)
  thrown,              \* what the last scheduler API call threw ("none": it returned)
  health,              \* the healthCheck() run: position, answers seen, lines logged
  adapterCall,         \* an adapter function called directly: its answer and its result
  sim                  \* simulateRewards called directly: its input and what it returned

storeVars == <<db, database, pendingOps, lastOp, opCount, initsInFlight>>
fetchVars == <<isRunning, calls>>
schedVars == <<schedulerIsRunning, tasks, cronTimers, deferred, refreshInterval>>
envVars == <<clock, subgraph, upstreamChanges>>
auxVars == <<thrown, health, adapterCall, sim>>
vars == <<envVars, storeVars, fetchVars, schedVars, auxVars>>

----------------------------------------------------------------------------
(* Persistence store: src/src/services/databaseService.js *)

TableNames == {"restakers", "validators", "slash_history", "rewards"}

\* A database file on which createTables never ran.
EmptyDatabase ==
  [schema |-> FALSE,
   restakers |-> {}, validators |-> {}, slash_history |-> {}, rewards |-> {},
   seq |-> [t \in TableNames |-> 0]]

\* sqlite enforces FOREIGN KEY clauses only after PRAGMA foreign_keys = ON,
\* which the service never issues on its connection.
foreignKeysEnforced == FALSE

\* Outcome of a store call: resolve(this.lastID) or reject(err).
Resolved(D, id) == [ok |-> TRUE, err |-> "", lastID |-> id, database |-> D]
Rejected(D, msg) == [ok |-> FALSE, err |-> msg, lastID |-> 0, database |-> D]

\* this.db.run on a missing, closed or table-less connection.
ConnectionError(h, D) ==
  IF h = "null" THEN "TypeError: Cannot read properties of null"
  ELSE IF h = "closed" THEN "SQLITE_MISUSE: Database is closed"
  ELSE IF ~D.schema THEN "SQLITE_ERROR: no such table"
  ELSE ""

\* CREATE TABLE IF NOT EXISTS (x4), CREATE INDEX IF NOT EXISTS (x5):
\* existing tables and their rows are left as they are.
createTables_Recreate(D) == [EmptyDatabase EXCEPT !.schema = TRUE]
createTables(D) == [D EXCEPT !.schema = TRUE]

\* Row written by insertRestaker: the six bound columns and updatedAt; the
\* columns left out of the column list (timestamp, createdAt) take their
\* DEFAULT CURRENT_TIMESTAMP; the record's own timestamp is not bound.
RestakerRow(id, r, now) ==
  [id |-> id,
   userAddress |-> r.userAddress,
   amountRestaked |-> r.amountRestaked,
   targetAVSValidatorAddress |-> r.targetAVSValidatorAddress,
   strategy |-> r.strategy,
   blockNumber |-> r.blockNumber,
   transactionHash |-> r.transactionHash,
   timestamp |-> SqlTime(now),
   createdAt |-> SqlTime(now),
   updatedAt |-> SqlTime(now)]

\* INSERT INTO a restakers table whose userAddress column is not UNIQUE:
\* every write adds a row.
insertRestaker_Append(h, D, r, now) ==
  IF ConnectionError(h, D) # "" THEN Rejected(D, ConnectionError(h, D))
  ELSE IF r.userAddress = NULL \/ r.amountRestaked = NoAmount
    THEN Rejected(D, "SQLITE_CONSTRAINT: NOT NULL constraint failed")
  ELSE LET id == D.seq.restakers + 1
       IN Resolved([D EXCEPT !.restakers = @ \cup {RestakerRow(id, r, now)},
                             !.seq.restakers = id], id)

\* INSERT OR REPLACE INTO restakers: rows that conflict on the UNIQUE
\* userAddress are deleted, then the new row is inserted under a fresh id.
insertRestaker(h, D, r, now) ==
  IF ConnectionError(h, D) # "" THEN Rejected(D, ConnectionError(h, D))
  ELSE IF r.userAddress = NULL \/ r.amountRestaked = NoAmount
    THEN Rejected(D, "SQLITE_CONSTRAINT: NOT NULL constraint failed")
  ELSE LET id == D.seq.restakers + 1
           kept == {x \in D.restakers : x.userAddress # r.userAddress}
       IN Resolved([D EXCEPT !.restakers = kept \cup {RestakerRow(id, r, now)},
                             !.seq.restakers = id], id)

ValidatorRow(id, v, now) ==
  [id |-> id,
   operatorAddress |-> v.operatorAddress,
   operatorId |-> v.operatorId,
   totalDelegatedStake |-> v.totalDelegatedStake,
   validatorStatus |-> v.validatorStatus,
   metadataURI |-> v.metadataURI,
   createdAt |-> SqlTime(now),
   updatedAt |-> SqlTime(now)]

\* INSERT OR REPLACE INTO validators, keyed by the UNIQUE operatorAddress.
insertValidator(h, D, v, now) ==
  IF ConnectionError(h, D) # "" THEN Rejected(D, ConnectionError(h, D))
  ELSE IF v.operatorAddress = NULL
    THEN Rejected(D, "SQLITE_CONSTRAINT: NOT NULL constraint failed")
  ELSE LET id == D.seq.validators + 1
           kept == {x \in D.validators : x.operatorAddress # v.operatorAddress}
       IN Resolved([D EXCEPT !.validators = kept \cup {ValidatorRow(id, v, now)},
                             !.seq.validators = id], id)

RewardRow(id, w, now) ==
  [id |-> id,
   userAddress |-> w.userAddress,
   validatorAddress |-> w.validatorAddress,
   rewardAmount |-> w.rewardAmount,
   rewardType |-> w.rewardType,
   blockNumber |-> w.blockNumber,
   transactionHash |-> w.transactionHash,
   timestamp |-> SqlTime(now),
   createdAt |-> SqlTime(now)]

\* INSERT INTO rewards: no unique key besides the generated id.
insertReward(h, D, w, now) ==
  IF ConnectionError(h, D) # "" THEN Rejected(D, ConnectionError(h, D))
  ELSE IF w.userAddress = NULL \/ w.validatorAddress = NULL \/ w.rewardAmount = NoAmount
    THEN Rejected(D, "SQLITE_CONSTRAINT: NOT NULL constraint failed")
  ELSE LET id == D.seq.rewards + 1
       IN Resolved([D EXCEPT !.rewards = @ \cup {RewardRow(id, w, now)},
                             !.seq.rewards = id], id)

SlashRow(id, s, now) ==
  [id |-> id,
   operatorAddress |-> s.operatorAddress,
   slashedAmount |-> s.slashedAmount,
   reason |-> s.reason,
   blockNumber |-> s.blockNumber,
   transactionHash |-> s.transactionHash,
   timestamp |-> SqlTime(now)]

\* Whether the FOREIGN KEY (operatorAddress) REFERENCES validators lets the
\* row in: always, unless enforcement is switched on.
ForeignKeyOk_Enforced(D, s) ==
  \E v \in D.validators : v.operatorAddress = s.operatorAddress
ForeignKeyOk(D, s) ==
  foreignKeysEnforced =>
    \E v \in D.validators : v.operatorAddress = s.operatorAddress

\* INSERT INTO slash_history.
insertSlashEvent(h, D, s, now) ==
  IF ConnectionError(h, D) # "" THEN Rejected(D, ConnectionError(h, D))
  ELSE IF s.operatorAddress = NULL \/ s.slashedAmount = NoAmount
    THEN Rejected(D, "SQLITE_CONSTRAINT: NOT NULL constraint failed")
  ELSE IF ~ForeignKeyOk(D, s)
    THEN Rejected(D, "SQLITE_CONSTRAINT: FOREIGN KEY constraint failed")
  ELSE LET id == D.seq.slash_history + 1
       IN Resolved([D EXCEPT !.slash_history = @ \cup {SlashRow(id, s, now)},
                             !.seq.slash_history = id], id)

\* SELECT userAddress, amountRestaked, targetAVSValidatorAddress, strategy,
\* timestamp FROM restakers (the ORDER BY is applied by the reader).
getAllRestakers(h, D) ==
  IF ConnectionError(h, D) # "" THEN Rejected(D, ConnectionError(h, D))
  ELSE [ok |-> TRUE, err |-> "", lastID |-> 0, database |-> D,
        rows |-> {[userAddress |-> x.userAddress,
                   amountRestaked |-> x.amountRestaked,
                   targetAVSValidatorAddress |-> x.targetAVSValidatorAddress,
                   strategy |-> x.strategy,
                   timestamp |-> x.timestamp] : x \in D.restakers}]

\* getRewardsByAddress, third query: SELECT rewardAmount, validatorAddress,
\* timestamp, transactionHash FROM rewards WHERE userAddress = ? (LIMIT 50
\* keeps every row of the stores explored here).
getRewardsByAddress(h, D, u) ==
  IF ConnectionError(h, D) # "" THEN Rejected(D, ConnectionError(h, D))
  ELSE [ok |-> TRUE, err |-> "", lastID |-> 0, database |-> D,
        rewardTimestamps |-> {[rewardAmount |-> x.rewardAmount,
                               validatorAddress |-> x.validatorAddress,
                               timestamp |-> x.timestamp,
                               transactionHash |-> x.transactionHash] :
                                x \in {y \in D.rewards : y.userAddress = u}}]

\* The decimal text of a number, as a TEXT column holds it, and the order
\* sqlite puts TEXT values in: byte by byte, a prefix before its extensions.
RECURSIVE Digits(_)
Digits(n) == IF n < 10 THEN <<n>> ELSE Append(Digits(n \div 10), n % 10)
TextLess(a, b) ==
  LET s == Digits(a)
      t == Digits(b)
  IN \E k \in 1..Len(t) :
       /\ k <= Len(s) + 1
       /\ \A j \in 1..(k - 1) : s[j] = t[j]
       /\ (k = Len(s) + 1 \/ s[k] < t[k])

\* ORDER BY v.totalDelegatedStake DESC on the TEXT column.
RECURSIVE OrderByStakeDesc(_)
OrderByStakeDesc(S) ==
  IF S = {} THEN << >>
  ELSE LET top == CHOOSE x \in S :
                    \A y \in S : ~TextLess(x.totalDelegatedStake, y.totalDelegatedStake)
       IN <<top>> \o OrderByStakeDesc(S \ {top})

\* The slash_history rows the LEFT JOIN puts in the group of validator v.
SlashRowsOf(D, v) == {x \in D.slash_history : x.operatorAddress = v.operatorAddress}
\* GROUP_CONCAT(json_object(...)): one JSON object per joined row, and one
\* object of nulls for a validator without slash rows (json_object maps NULL
\* to null, so the aggregate is never NULL); the objects are joined by commas.
SlashJsonKeys == 4
ConcatObjects(D, v) == IF SlashRowsOf(D, v) = {} THEN 1 ELSE Cardinality(SlashRowsOf(D, v))
\* row.slashHistory.split(',').map(item => JSON.parse(item)): the text is cut
\* at every comma, those between the keys of one object included, so a piece
\* is a JSON text only if each object has a single key.
SplitPieces(D, v) == ConcatObjects(D, v) * SlashJsonKeys
PiecesParse(D, v) == SplitPieces(D, v) = ConcatObjects(D, v)

\* getAllValidators: the rows of the grouped join in text order of the stake,
\* each with its parsed slash history. JSON.parse throws inside the callback
\* of db.all, outside any try block and outside the promise executor: the
\* promise never settles and the error is an uncaught exception (ok is FALSE).
getAllValidators(h, D) ==
  IF ConnectionError(h, D) # "" THEN Rejected(D, ConnectionError(h, D))
  ELSE LET rows == OrderByStakeDesc(D.validators)
       IN IF \E i \in 1..Len(rows) : ~PiecesParse(D, rows[i])
            THEN [ok |-> FALSE, err |-> "SyntaxError: JSON.parse (uncaught)", lastID |-> 0,
                  database |-> D, rows |-> << >>]
            ELSE [ok |-> TRUE, err |-> "", lastID |-> 0, database |-> D,
                  rows |-> [i \in 1..Len(rows) |->
                              [operatorAddress |-> rows[i].operatorAddress,
                               operatorId |-> rows[i].operatorId,
                               totalDelegatedStake |-> rows[i].totalDelegatedStake,
                               validatorStatus |-> rows[i].validatorStatus,
                               metadataURI |-> rows[i].metadataURI,
                               slashHistory |-> SlashRowsOf(D, rows[i])]]]

----------------------------------------------------------------------------
(* Records handed to the store by callers of its exported functions *)

Users == {"0xaaa", "0xbbb"}
Operators == {"0xop1", "0xop2"}

Restaker(u, amt, target, blk, ts) ==
  [userAddress |-> u, amountRestaked |-> amt,
   targetAVSValidatorAddress |-> target, strategy |-> target,
   blockNumber |-> blk, transactionHash |-> <<"tx", blk>>, timestamp |-> ts]

Validator(o, id, stake) ==
  [operatorAddress |-> o, operatorId |-> id, totalDelegatedStake |-> stake,
   validatorStatus |-> "active", metadataURI |-> <<"uri", id>>]

SlashEvent(o, amt, blk, ts) ==
  [operatorAddress |-> o, slashedAmount |-> amt, reason |-> "double-sign",
   blockNumber |-> blk, transactionHash |-> <<"tx", blk>>, timestamp |-> ts]

Reward(u, o, amt, blk, ts) ==
  [userAddress |-> u, validatorAddress |-> o, rewardAmount |-> amt,
   rewardType |-> "restaking", blockNumber |-> blk,
   transactionHash |-> <<"tx", blk>>, timestamp |-> ts]

\* An event time one day before the first state.
Yesterday == IsoTime(StartTime - 24 * 60 * 60)

ClientRestakers ==
  {Restaker("0xaaa", 50, "0xop1", 100, Yesterday),
   Restaker("0xaaa", 70, "0xop2", 101, IsoTime(StartTime)),
   Restaker("0xbbb", 50, "0xop1", 102, Yesterday),
   Restaker(NULL, 50, "0xop1", 103, Yesterday)}
ClientValidators ==
  {Validator("0xop1", "operator_1", 900), Validator("0xop1", "operator_1", 1000),
   Validator("0xop2", "operator_2", 1000), Validator(NULL, "operator_x", 5)}
ClientSlashEvents ==
  {SlashEvent("0xop1", 7, 200, Yesterday), SlashEvent(NULL, 7, 201, Yesterday)}
ClientRewards ==
  {Reward("0xaaa", "0xop1", 3, 300, Yesterday)}

StoreCalls ==
  [op : {"insertRestaker"}, rec : ClientRestakers]
    \cup [op : {"insertValidator"}, rec : ClientValidators]
    \cup [op : {"insertSlashEvent"}, rec : ClientSlashEvents]
    \cup [op : {"insertReward"}, rec : ClientRewards]
    \cup [op : {"getAllRestakers", "getAllValidators"}, rec : {NoRecord}]

\* The exported functions of module.exports, by name.
ExecStoreCall(h, D, call, now) ==
  CASE call.op = "insertRestaker" -> insertRestaker(h, D, call.rec, now)
    [] call.op = "insertValidator" -> insertValidator(h, D, call.rec, now)
    [] call.op = "insertSlashEvent" -> insertSlashEvent(h, D, call.rec, now)
    [] call.op = "insertReward" -> insertReward(h, D, call.rec, now)
    [] call.op = "getAllRestakers" -> getAllRestakers(h, D)
    [] call.op = "getAllValidators" -> getAllValidators(h, D)

NoOp == [n |-> 0, op |-> "none", rec |-> NoRecord, ok |-> TRUE, err |-> ""]
Completed(n, op, rec, out) ==
  [n |-> n, op |-> op, rec |-> rec, ok |-> out.ok, err |-> out.err]

----------------------------------------------------------------------------
(* Store calls of other callers (route handlers, scripts, tests) *)

\* A caller invokes an exported store function: with no usable connection
\* the promise rejects at once, otherwise the statement is queued on the
\* connection this.db refers to at that moment.
StoreCallIssue(call) ==
  /\ opCount < MaxOps
  /\ opCount' = opCount + 1
  /\ IF db # "open"
       THEN /\ lastOp' = Completed(lastOp.n + 1, call.op, call.rec,
                                   ExecStoreCall(db, database, call, clock))
            /\ UNCHANGED pendingOps
       ELSE /\ pendingOps' = pendingOps \cup {call}
            /\ UNCHANGED lastOp
  /\ UNCHANGED <<envVars, db, database, initsInFlight, fetchVars, schedVars, auxVars>>

\* sqlite runs a queued statement and the callback settles the promise.
StoreCallComplete(call) ==
  /\ call \in pendingOps
  /\ LET out == ExecStoreCall("open", database, call, clock)
     IN /\ database' = out.database
        /\ lastOp' = Completed(lastOp.n + 1, call.op, call.rec, out)
  /\ pendingOps' = pendingOps \ {call}
  /\ UNCHANGED <<envVars, db, opCount, initsInFlight, fetchVars, schedVars, auxVars>>

\* initializeDatabase up to createTables: mkdir resolves and this.db is a new
\* connection (the previous one is neither closed nor waited for), or mkdir
\* rejects and the call throws.
InitializeOpen(ok) ==
  /\ opCount < MaxOps
  /\ opCount' = opCount + 1
  /\ IF ok
       THEN /\ db' = "open"
            /\ initsInFlight' = initsInFlight + 1
            /\ UNCHANGED lastOp
       ELSE /\ lastOp' = Completed(lastOp.n + 1, "initializeDatabase", NoRecord,
                                   Rejected(database, "EACCES: mkdir"))
            /\ UNCHANGED <<db, initsInFlight>>
  /\ UNCHANGED <<envVars, database, pendingOps, fetchVars, schedVars, auxVars>>

\* createTables settles: every statement ran, or one failed and the call throws.
InitializeTables(ok) ==
  /\ initsInFlight > 0
  /\ initsInFlight' = initsInFlight - 1
  /\ IF ok
       THEN /\ database' = createTables(database)
            /\ lastOp' = Completed(lastOp.n + 1, "initializeDatabase", NoRecord,
                                   Resolved(database, 0))
       ELSE /\ lastOp' = Completed(lastOp.n + 1, "initializeDatabase", NoRecord,
                                   Rejected(database, "SQLITE_IOERR"))
            /\ UNCHANGED database
  /\ UNCHANGED <<envVars, db, pendingOps, opCount, fetchVars, schedVars, auxVars>>

\* close(): the connection closes once its queued statements have run; this.db
\* keeps referring to it.
Close ==
  /\ db = "open"
  /\ pendingOps = {}
  /\ initsInFlight = 0
  /\ opCount < MaxOps
  /\ opCount' = opCount + 1
  /\ db' = "closed"
  /\ UNCHANGED <<envVars, database, pendingOps, lastOp, initsInFlight, fetchVars, schedVars, auxVars>>

\* Time passes.
Tick ==
  /\ clock < StartTime + MaxTicks * TickStep
  /\ clock' = clock + TickStep
  /\ UNCHANGED <<subgraph, upstreamChanges, storeVars, fetchVars, schedVars, auxVars>>

----------------------------------------------------------------------------
(* Upstream adapter: src/src/services/eigenLayerService.js                 *)
(* Token amounts are counted in micro-ether (10^12 wei).                   *)

\* ethers.parseEther of a decimal number of ether given in hundredths.
parseEtherHundredths(h) == h * 10000

\* Answers of the subgraph endpoint to axios.post: no answer (unreachable,
\* timeout), a body that is no envelope, or an envelope with or without
\* an errors array and with or without data.
Deposit(staker, amt, blk, ts) ==
  [staker |-> staker, strategy |-> "0xop1", amount |-> amt,
   blockNumber |-> blk, blockTimestamp |-> ts, transactionHash |-> <<"tx", blk>>]

Operator(o, id, shares) ==
  [operator |-> o, id |-> id, totalShares |-> shares, metadataURI |-> <<"uri", id>>]

Envelope(errors, data) ==
  [kind |-> "envelope", errors |-> errors, hasData |-> TRUE, data |-> data]
ErrorEnvelope(errors) ==
  [kind |-> "envelope", errors |-> errors, hasData |-> FALSE, data |-> << >>]
Unreachable == [kind |-> "unreachable", errors |-> "absent", hasData |-> FALSE, data |-> << >>]

\* The catch block of fetchRestakingData runs when axios.post rejects, when the
\* envelope carries an errors value that is truthy (any array is, the empty
\* one too), or when reading response.data.data.<field> throws.
AdapterFails_TransportOnly(resp) == resp.kind # "envelope"
AdapterFails(resp) ==
  \/ resp.kind # "envelope"
  \/ resp.errors # "absent"
  \/ ~resp.hasData

getMockRestakingData(now) ==
  << [userAddress |-> "0x742f", amountRestaked |-> parseEtherHundredths(3250),
      targetAVSValidatorAddress |-> "0x8586", strategy |-> "0x93c4",
      blockNumber |-> 18500000, transactionHash |-> <<"tx", 123>>,
      timestamp |-> IsoTime(now)],
     [userAddress |-> "0x9a8f", amountRestaked |-> parseEtherHundredths(10000),
      targetAVSValidatorAddress |-> "0x8586", strategy |-> "0x93c4",
      blockNumber |-> 18500100, transactionHash |-> <<"tx", 456>>,
      timestamp |-> IsoTime(now - 3600)] >>

getMockValidatorData ==
  << [operatorAddress |-> "0x8586", operatorId |-> "operator_1",
      totalDelegatedStake |-> parseEtherHundredths(150075),
      validatorStatus |-> "active",
      metadataURI |-> <<"uri", "operator_1">>],
     [operatorAddress |-> "0x3905", operatorId |-> "operator_2",
      totalDelegatedStake |-> parseEtherHundredths(85025),
      validatorStatus |-> "active",
      metadataURI |-> <<"uri", "operator_2">>] >>

\* deposits.map(...): one restaker record per deposit, in the order received;
\* the block time in seconds becomes an ISO time of the same instant.
processRestakingData(deposits) ==
  [i \in 1..Len(deposits) |->
     [userAddress |-> deposits[i].staker,
      amountRestaked |-> deposits[i].amount,
      targetAVSValidatorAddress |-> deposits[i].strategy,
      strategy |-> deposits[i].strategy,
      blockNumber |-> deposits[i].blockNumber,
      transactionHash |-> deposits[i].transactionHash,
      timestamp |-> IsoTime(deposits[i].blockTimestamp)]]

\* operators.map(...): status is always 'active', a missing totalShares is '0'.
processValidatorData(operators) ==
  [i \in 1..Len(operators) |->
     [operatorAddress |-> operators[i].operator,
      operatorId |-> operators[i].id,
      totalDelegatedStake |->
        IF operators[i].totalShares = NoAmount THEN 0 ELSE operators[i].totalShares,
      validatorStatus |-> "active",
      metadataURI |-> operators[i].metadataURI]]

EL_fetchRestakingData(resp, now) ==
  IF AdapterFails(resp) THEN getMockRestakingData(now)
  ELSE processRestakingData(resp.data)

EL_fetchValidatorData(resp) ==
  IF AdapterFails(resp) THEN getMockValidatorData
  ELSE processValidatorData(resp.data)

\* fetchSlashingEvents: no live feed, always the empty list.
EL_fetchSlashingEvents == << >>

\* Reward simulator constants.
LookbackDays == 30
RewardRateDivisor == 10000
MinRewardMicroEther == 1000
oneDay == 24 * 60 * 60

\* The rewards of one restaker: for i = 0..29 the same amount (0.0001 of the
\* stake), kept only when above 0.001 ether (rewardAmount > 0.001); Math.random() yields the hash,
\* here the k-th draw of the stream rnd.
RewardsOf(r, now, rnd, base) ==
  IF r.amountRestaked > MinRewardMicroEther * RewardRateDivisor
    THEN [j \in 1..LookbackDays |->
            [userAddress |-> r.userAddress,
             validatorAddress |-> r.targetAVSValidatorAddress,
             rewardAmount |-> r.amountRestaked \div RewardRateDivisor,
             rewardType |-> "restaking",
             blockNumber |-> r.blockNumber + (j - 1),
             transactionHash |-> <<"random", rnd * 1000 + base + j>>,
             timestamp |-> IsoTime(now - (j - 1) * oneDay)]]
    ELSE << >>

RECURSIVE simulateFrom(_, _, _, _, _)
simulateFrom(restakers, k, now, rnd, acc) ==
  IF k > Len(restakers) THEN acc
  ELSE simulateFrom(restakers, k + 1, now, rnd,
                    acc \o RewardsOf(restakers[k], now, rnd, Len(acc)))

simulateRewards(restakers, now, rnd) == simulateFrom(restakers, 1, now, rnd, << >>)

\* fetchRewardsData: a second fetchRestakingData call of its own feeds the
\* simulator; ethers.formatEther throws on a missing amount and the catch
\* block then returns the empty list.
EL_fetchRewardsData(resp, now, rnd) ==
  LET restakers == EL_fetchRestakingData(resp, now)
  IN IF \E k \in 1..Len(restakers) : restakers[k].amountRestaked = NoAmount
       THEN << >>
       ELSE simulateRewards(restakers, now, rnd)

RandomStreams == {1, 2}

\* simulateRewards called on a restaker snapshot of up to MaxSnapshot records,
\* then called once more on the same snapshot at the same Date.now().
MaxSnapshot == 2
SimRestakers ==
  {[userAddress |-> u, amountRestaked |-> amt,
    targetAVSValidatorAddress |-> IF u = "0xaaa" THEN "0xop1" ELSE "0xop2",
    strategy |-> "0x93c4", blockNumber |-> 100, transactionHash |-> <<"tx", 100>>,
    timestamp |-> IsoTime(StartTime - oneDay)] :
     u \in {"0xaaa", "0xbbb"},
     amt \in {parseEtherHundredths(999), parseEtherHundredths(1000), parseEtherHundredths(1001)}}
SimSnapshots ==
  UNION {[1..n -> SimRestakers] : n \in 0..MaxSnapshot}
NoSim == [pc |-> "idle", restakers |-> << >>, now |-> 0, first |-> << >>, second |-> << >>]

SimulateInvoke(restakers, rnd) ==
  /\ sim.pc = "idle"
  /\ sim' = [pc |-> "once", restakers |-> restakers, now |-> clock,
             first |-> simulateRewards(restakers, clock, rnd), second |-> << >>]
  /\ UNCHANGED <<envVars, storeVars, fetchVars, schedVars, thrown, health, adapterCall>>

SimulateAgain(rnd) ==
  /\ sim.pc = "once"
  /\ sim' = [sim EXCEPT !.pc = "twice",
                        !.second = simulateRewards(sim.restakers, sim.now, rnd)]
  /\ UNCHANGED <<envVars, storeVars, fetchVars, schedVars, thrown, health, adapterCall>>

----------------------------------------------------------------------------
(* Metrics adapter: src/src/services/lidoService.js *)

\* Answers of the two REST endpoints, GET /metrics and GET /rewards.
LidoUp == [kind |-> "body", hasData |-> TRUE]
LidoDown == [kind |-> "unreachable", hasData |-> FALSE]
LidoMalformed == [kind |-> "body", hasData |-> FALSE]
LidoAnswers ==
  {[metrics |-> LidoUp, rewards |-> LidoUp],
   [metrics |-> LidoDown, rewards |-> LidoDown],
   [metrics |-> LidoUp, rewards |-> LidoMalformed]}

\* axios.get rejects, or reading response.data.<field> throws.
LidoFails(resp) == resp.kind # "body" \/ ~resp.hasData

MockRewardDays == 7
getMockStakingData(now) ==
  [source |-> "mock", totalPooledEther |-> 9500000, totalShares |-> 9300000,
   bufferedEther |-> 150000, lastUpdate |-> IsoTime(now)]
getMockRewardsData(now, rnd) ==
  [i \in 1..MockRewardDays |->
     [date |-> now - (i - 1) * (24 * 60 * 60), totalRewards |-> <<"random", rnd * 1000 + i>>]]

\* fetchStakingData and fetchRewardsData each catch their own failure and
\* answer from the mock; fetchLidoData joins the two.
Lido_fetchStakingData(resp, now) ==
  IF LidoFails(resp) THEN getMockStakingData(now)
  ELSE [source |-> "live", totalPooledEther |-> 9400000, totalShares |-> 9200000,
        bufferedEther |-> 100000, lastUpdate |-> IsoTime(now)]
Lido_fetchRewardsData(resp, now, rnd) ==
  IF LidoFails(resp) THEN getMockRewardsData(now, rnd)
  ELSE << [date |-> now, totalRewards |-> <<"live", 1>>] >>
Lido_fetchLidoData(answer, now, rnd) ==
  [raised |-> FALSE,
   staking |-> Lido_fetchStakingData(answer.metrics, now),
   rewards |-> Lido_fetchRewardsData(answer.rewards, now, rnd)]

----------------------------------------------------------------------------
(* The adapters called directly, on any answer of the endpoint *)

\* A body that is no JSON envelope, and a request that ran into its timeout.
Malformed_Body == [kind |-> "malformed", errors |-> "absent", hasData |-> FALSE, data |-> << >>]
Timeout == [kind |-> "timeout", errors |-> "absent", hasData |-> FALSE, data |-> << >>]

AnyRestakingResponses ==
  {Unreachable, Timeout, Malformed_Body,
   ErrorEnvelope("nonempty"),
   Envelope("nonempty", << Deposit("0xaaa", 20000000, 501, StartTime - 24 * 60 * 60) >>),
   Envelope("empty", << Deposit("0xaaa", 20000000, 501, StartTime - 24 * 60 * 60) >>),
   Envelope("absent", << Deposit("0xaaa", 20000000, 501, StartTime - 24 * 60 * 60) >>),
   Envelope("absent", << >>)}
AnyValidatorResponses ==
  {Unreachable, Timeout, Malformed_Body,
   ErrorEnvelope("nonempty"),
   Envelope("empty", << Operator("0xop1", "operator_1", 9000000) >>),
   Envelope("absent", << Operator("0xop1", "operator_1", 9000000) >>),
   Envelope("absent", << >>)}

AdapterFunctions == {"fetchRestakingData", "fetchValidatorData", "fetchLidoData"}
NoAdapterCall ==
  [fn |-> "none", pc |-> "idle", resp |-> Unreachable, lido |-> [metrics |-> LidoDown, rewards |-> LidoDown],
   raised |-> FALSE, batch |-> << >>]

\* A caller awaits one of the adapter functions.
AdapterInvoke(fn) ==
  /\ adapterCall.pc # "pending"
  /\ adapterCall' = [NoAdapterCall EXCEPT !.fn = fn, !.pc = "pending"]
  /\ UNCHANGED <<envVars, storeVars, fetchVars, schedVars, thrown, health, sim>>

\* The request settles and the awaited promise resolves.
AdapterSettle(answer) ==
  /\ adapterCall.pc = "pending"
  /\ adapterCall' =
       CASE adapterCall.fn = "fetchRestakingData" ->
              [adapterCall EXCEPT !.pc = "settled", !.resp = subgraph.deposits,
                                  !.batch = EL_fetchRestakingData(subgraph.deposits, clock)]
         [] adapterCall.fn = "fetchValidatorData" ->
              [adapterCall EXCEPT !.pc = "settled", !.resp = subgraph.operators,
                                  !.batch = EL_fetchValidatorData(subgraph.operators)]
         [] adapterCall.fn = "fetchLidoData" ->
              [adapterCall EXCEPT !.pc = "settled", !.lido = answer,
                                  !.raised = Lido_fetchLidoData(answer, clock, 1).raised]
  /\ UNCHANGED <<envVars, storeVars, fetchVars, schedVars, thrown, health, sim>>

\* Math.random() inside the c-th call draws from a stream of its own.
RandomStreamOf(c) == c

----------------------------------------------------------------------------
(* Fetch orchestrator: src/src/scripts/fetchData.js *)

TaskNames == {"restakingData", "validatorData", "rewardsData", "slashingData", "lidoData"}
PersistingTasks == TaskNames \ {"lidoData"}
CallIds == 1..MaxCalls

\* Upstream answers explored inside refresh cycles.
YesterdaySeconds == StartTime - oneDay
CycleRestakingResponses ==
  {Unreachable,
   Envelope("absent", << Deposit(NULL, 5000000, 500, YesterdaySeconds),
                         Deposit("0xaaa", 20000000, 501, YesterdaySeconds) >>),
   Envelope("absent", << Deposit("0xaaa", 6000000, 601, YesterdaySeconds),
                         Deposit("0xaaa", 5000000, 600, YesterdaySeconds - oneDay) >>)}
CycleValidatorResponses ==
  {Unreachable,
   Envelope("absent", << Operator(NULL, "operator_x", 5000000),
                         Operator("0xop1", "operator_1", 9000000) >>)}

\* The answer the request of task t gets from the endpoint as it is now.
ResponseFor(t) ==
  IF t \in {"restakingData", "rewardsData"} THEN subgraph.deposits
  ELSE IF t = "validatorData" THEN subgraph.operators
  ELSE Unreachable

\* What the adapter call of task t resolves to.
AdapterBatch(t, resp, now, rnd) ==
  CASE t = "restakingData" -> EL_fetchRestakingData(resp, now)
    [] t = "validatorData" -> EL_fetchValidatorData(resp)
    [] t = "rewardsData" -> EL_fetchRewardsData(resp, now, rnd)
    [] t = "slashingData" -> EL_fetchSlashingEvents
    [] t = "lidoData" -> << >>

\* The store function the loop of task t awaits for each record.
InsertRecord(t, h, D, rec, now) ==
  CASE t = "restakingData" -> insertRestaker(h, D, rec, now)
    [] t = "validatorData" -> insertValidator(h, D, rec, now)
    [] t = "rewardsData" -> insertReward(h, D, rec, now)
    [] t = "slashingData" -> insertSlashEvent(h, D, rec, now)

\* error.message.includes('UNIQUE constraint failed')
IsUniqueViolation(err) == err = "SQLITE_CONSTRAINT: UNIQUE constraint failed"

\* Only the restaking and validator loops test for the duplicate message;
\* the rewards and slashing loops count every rejection.
SwallowsDuplicates(t) == t \in {"restakingData", "validatorData"}

\* The catch inside the for loop: counters after one awaited insert.
CountOutcome(t, acc, out) ==
  IF out.ok
    THEN [acc EXCEPT !.database = out.database, !.inserted = @ + 1, !.attempts = @ + 1]
  ELSE IF SwallowsDuplicates(t) /\ IsUniqueViolation(out.err)
    THEN [acc EXCEPT !.swallowed = @ + 1, !.attempts = @ + 1]
  ELSE [acc EXCEPT !.errors = @ + 1, !.attempts = @ + 1]

\* The try/catch sits inside the loop body: the loop goes on whether the
\* awaited insert resolved or rejected.
ContinueAfter_AbortOnError(out) == out.ok
ContinueAfter(out) == out.ok \in BOOLEAN

\* One turn of the loop body on the counters so far.
PersistStep(t, h, rec, now, acc) ==
  LET out == InsertRecord(t, h, acc.database, rec, now)
  IN [acc |-> CountOutcome(t, acc, out), continue |-> ContinueAfter(out)]

\* The turns of the loop for the records lo..hi in their order, the second
\* half of the range starting from the counters the first half left. The
\* record and the counters of each turn are bound as values.
RECURSIVE PersistFrom(_, _, _, _, _, _, _)
PersistFrom(t, h, batch, lo, hi, now, acc) ==
  IF lo > hi THEN [acc |-> acc, continue |-> TRUE]
  ELSE IF lo = hi
    THEN CHOOSE s \in {PersistStep(t, h, rec, now, a) : rec \in {batch[lo]}, a \in {acc}} : TRUE
  ELSE CHOOSE r \in {IF s.continue
                        THEN PersistFrom(t, h, batch, (lo + hi) \div 2 + 1, hi, now, s.acc)
                        ELSE s :
                      s \in {PersistFrom(t, h, batch, lo, (lo + hi) \div 2, now, acc)}} : TRUE

\* for (const record of batch) { try { await insert(record) ... } catch ... }
PersistBatch(t, h, D, batch, now) ==
  PersistFrom(t, h, batch, 1, Len(batch), now,
              [database |-> D, inserted |-> 0, errors |-> 0, attempts |-> 0, swallowed |-> 0]).acc

NoResult == [success |-> FALSE, none |-> TRUE]
IdleTask == [pc |-> "notStarted", resp |-> Unreachable, batch |-> << >>, result |-> NoResult]
\* SELECT COUNT(*) of the two keyed tables, as an observer reads them.
RowCounts(D) ==
  [restakers |-> Cardinality(D.restakers), validators |-> Cardinality(D.validators)]
\* A call: its position, the caller awaiting it ("timer": a cron or setTimeout
\* callback, "triggerRefresh", "direct"), its five tasks, and the row counts
\* at its end.
IdleCall ==
  [pc |-> "idle", origin |-> "none", task |-> [t \in TaskNames |-> IdleTask], rows |-> RowCounts(EmptyDatabase)]

InCycle(c) == calls[c].pc \in {"mkdir", "createTables", "tasks"}

\* Promise.allSettled resolves when every task promise has settled.
AllSettled_Any(ts) == \E t \in TaskNames : ts[t].pc = "settled"
AllSettled(ts) == \A t \in TaskNames : ts[t].pc = "settled"

\* The call slot a new invocation takes.
NextCall == CHOOSE c \in CallIds : calls[c].pc = "idle" /\ \A d \in 1..(c - 1) : calls[d].pc # "idle"

\* fetchAllData up to its first await: the skip when a cycle is in progress,
\* otherwise the flag is set and initializeDatabase is awaited.
fetchAllData_SkipInsideTry(origin) ==
  /\ \E c \in CallIds : calls[c].pc = "idle"
  /\ IF isRunning
       THEN /\ calls' = [calls EXCEPT ![NextCall] = [@ EXCEPT !.pc = "skipped", !.origin = origin]]
            /\ isRunning' = FALSE
       ELSE /\ calls' = [calls EXCEPT ![NextCall] = [@ EXCEPT !.pc = "mkdir", !.origin = origin]]
            /\ isRunning' = TRUE
fetchAllData_NoGuard(origin) ==
  /\ \E c \in CallIds : calls[c].pc = "idle"
  /\ calls' = [calls EXCEPT ![NextCall] = [@ EXCEPT !.pc = "mkdir", !.origin = origin]]
  /\ isRunning' = TRUE
fetchAllData(origin) ==
  /\ \E c \in CallIds : calls[c].pc = "idle"
  /\ IF isRunning
       THEN /\ calls' = [calls EXCEPT ![NextCall] = [@ EXCEPT !.pc = "skipped", !.origin = origin]]
            /\ UNCHANGED isRunning
       ELSE /\ calls' = [calls EXCEPT ![NextCall] = [@ EXCEPT !.pc = "mkdir", !.origin = origin]]
            /\ isRunning' = TRUE

\* catch (error) { throw error } finally { this.isRunning = false }
CycleThrows_KeepFlag(c) ==
  /\ calls' = [calls EXCEPT ![c] = [@ EXCEPT !.pc = "failed"]]
  /\ UNCHANGED isRunning
CycleThrows(c) ==
  /\ calls' = [calls EXCEPT ![c] = [@ EXCEPT !.pc = "failed"]]
  /\ isRunning' = FALSE

\* await initializeDatabase(), first half: mkdir, then this.db = new Database.
CycleInitOpen(c, ok) ==
  /\ calls[c].pc = "mkdir"
  /\ IF ok
       THEN /\ db' = "open"
            /\ calls' = [calls EXCEPT ![c] = [@ EXCEPT !.pc = "createTables"]]
            /\ UNCHANGED isRunning
       ELSE /\ CycleThrows(c)
            /\ UNCHANGED db
  /\ UNCHANGED <<envVars, database, pendingOps, lastOp, opCount, initsInFlight, schedVars, auxVars>>

\* A task function runs to its first pending await. fetchSlashingEvents awaits
\* nothing and returns the empty list, so the slashing task returns within the
\* same turn of the event loop; the other four wait for the network.
StartedTask(t) ==
  IF t = "slashingData" /\ EL_fetchSlashingEvents = << >>
    THEN [IdleTask EXCEPT !.pc = "settled",
                          !.result = [success |-> TRUE, inserted |-> 0, errors |-> 0,
                                      attempts |-> 0, swallowed |-> 0]]
    ELSE [IdleTask EXCEPT !.pc = "fetching"]

\* await initializeDatabase(), second half: createTables settles; on success
\* the five task functions are called and each runs up to its adapter call.
CycleInitTables_IgnoreFailure(c, ok) ==
  /\ calls[c].pc = "createTables"
  /\ database' = IF ok THEN createTables(database) ELSE database
  /\ calls' = [calls EXCEPT ![c] =
       [@ EXCEPT !.pc = "tasks",
                 !.task = [t \in TaskNames |-> StartedTask(t)]]]
  /\ UNCHANGED isRunning
  /\ UNCHANGED <<envVars, db, pendingOps, lastOp, opCount, initsInFlight, schedVars, auxVars>>
CycleInitTables(c, ok) ==
  /\ calls[c].pc = "createTables"
  /\ IF ok
       THEN /\ database' = createTables(database)
            /\ calls' = [calls EXCEPT ![c] =
                 [@ EXCEPT !.pc = "tasks",
                           !.task = [t \in TaskNames |-> StartedTask(t)]]]
            /\ UNCHANGED isRunning
       ELSE /\ CycleThrows(c)
            /\ UNCHANGED database
  /\ UNCHANGED <<envVars, db, pendingOps, lastOp, opCount, initsInFlight, schedVars, auxVars>>

\* A task returns its result; when it is the last one, allSettled resolves,
\* the results are logged and the finally block clears the flag.
Settle(c, t, tr, D) ==
  LET ts == [calls[c].task EXCEPT ![t] = tr]
  IN IF AllSettled(ts)
       THEN /\ calls' = [calls EXCEPT ![c] = [@ EXCEPT !.pc = "done", !.task = ts,
                                                       !.rows = RowCounts(D)]]
            /\ isRunning' = FALSE
       ELSE /\ calls' = [calls EXCEPT ![c] = [@ EXCEPT !.task = ts]]
            /\ UNCHANGED isRunning

TaskResult(acc) ==
  [success |-> TRUE, inserted |-> acc.inserted, errors |-> acc.errors,
   attempts |-> acc.attempts, swallowed |-> acc.swallowed]

\* The value a call that ran a cycle resolves with: the try block ends with
\* the log calls and the function has no return statement.
Undefined == [kind |-> "undefined"]
fetchAllData_Resolves(call) == Undefined

\* logFetchResults: one console line per source, with the inserted count
\* when it is not zero and the text 'Success' otherwise.
logFetchResults(call) ==
  [t \in TaskNames |->
     LET data == call.task[t].result
     IN IF ~data.success THEN [success |-> FALSE, text |-> "Failed"]
        ELSE IF "inserted" \in DOMAIN data /\ data.inserted # 0
          THEN [success |-> TRUE, inserted |-> data.inserted]
          ELSE [success |-> TRUE, text |-> "Success"]]

\* The adapter call of task t resolves. The Lido task and a task with an empty
\* batch return at once; any other task awaits its first insert.
TaskFetched(c, t) ==
  /\ calls[c].pc = "tasks"
  /\ calls[c].task[t].pc = "fetching"
  /\ \E resp \in {ResponseFor(t)} :
       \E batch \in {AdapterBatch(t, resp, clock, RandomStreamOf(c))} :
         IF t = "lidoData"
           THEN Settle(c, t, [pc |-> "settled", resp |-> resp, batch |-> << >>,
                              result |-> [success |-> TRUE, data |-> "lidoData"]],
                       database)
           ELSE IF batch = << >>
           THEN Settle(c, t, [pc |-> "settled", resp |-> resp, batch |-> batch,
                              result |-> TaskResult(PersistBatch(t, db, database, batch, clock))],
                       database)
           ELSE /\ calls' = [calls EXCEPT ![c].task[t] =
                               [pc |-> "writing", resp |-> resp, batch |-> batch, result |-> NoResult]]
                /\ UNCHANGED isRunning
  /\ UNCHANGED <<envVars, storeVars, schedVars, auxVars>>

\* The inserts of task t run, one awaited after the other, and the task returns.
TaskPersist(c, t) ==
  /\ calls[c].pc = "tasks"
  /\ calls[c].task[t].pc = "writing"
  /\ \E batch \in {calls[c].task[t].batch} :
       \E acc \in {PersistBatch(t, db, database, batch, clock)} :
         /\ database' = acc.database
         /\ Settle(c, t, [calls[c].task[t] EXCEPT !.pc = "settled", !.batch = << >>,
                                                  !.result = TaskResult(acc)],
                   acc.database)
  /\ UNCHANGED <<envVars, db, pendingOps, lastOp, opCount, initsInFlight, schedVars, auxVars>>

\* healthCheck(): the two checks run one after the other; each awaits its
\* adapter function, drops the value and logs Healthy, or logs the error it
\* caught. resp and lido keep what the endpoints answered.
HealthSources == <<"EigenLayer Service", "Lido Service">>
IdleHealth ==
  [pc |-> "idle", resp |-> Unreachable, lido |-> [metrics |-> LidoDown, rewards |-> LidoDown],
   fetches |-> [eigenLayer |-> 0, lido |-> 0], log |-> << >>]

\* The line a check logs once its adapter call has settled.
HealthLine(name, raised) == [name |-> name, healthy |-> ~raised]

healthCheck ==
  /\ health.pc \in {"idle", "done"}
  /\ health' = [IdleHealth EXCEPT !.pc = "EigenLayer Service"]

HealthEigenLayerSettled_Persist ==
  /\ health.pc = "EigenLayer Service"
  /\ \E batch \in {EL_fetchRestakingData(subgraph.deposits, clock)} :
       /\ health' = [health EXCEPT !.pc = "Lido Service",
                                   !.resp = subgraph.deposits,
                                   !.fetches.eigenLayer = @ + 1,
                                   !.log = Append(@, HealthLine("EigenLayer Service", FALSE))]
       /\ database' = PersistBatch("restakingData", db, database, batch, clock).database
  /\ UNCHANGED <<envVars, db, pendingOps, lastOp, opCount, initsInFlight, fetchVars, schedVars,
                 thrown, adapterCall, sim>>
HealthEigenLayerSettled ==
  /\ health.pc = "EigenLayer Service"
  /\ \E batch \in {EL_fetchRestakingData(subgraph.deposits, clock)} :
       health' = [health EXCEPT !.pc = "Lido Service",
                                !.resp = subgraph.deposits,
                                !.fetches.eigenLayer = @ + 1,
                                !.log = Append(@, HealthLine("EigenLayer Service", FALSE))]
  /\ UNCHANGED <<envVars, storeVars, fetchVars, schedVars, thrown, adapterCall, sim>>

HealthLidoSettled(answer) ==
  /\ health.pc = "Lido Service"
  /\ health' = [health EXCEPT !.pc = "done",
                               !.lido = answer,
                               !.fetches.lido = @ + 1,
                               !.log = Append(@, HealthLine("Lido Service",
                                          Lido_fetchLidoData(answer, clock, 1).raised))]
  /\ UNCHANGED <<envVars, storeVars, fetchVars, schedVars, thrown, adapterCall, sim>>

\* dataFetcher.healthCheck() called by any client of the module.
InvokeHealthCheck ==
  /\ healthCheck
  /\ UNCHANGED <<envVars, storeVars, fetchVars, schedVars, thrown, adapterCall, sim>>

----------------------------------------------------------------------------
(* Scheduler: src/src/scripts/scheduler.js *)

DefaultInterval == "*/30 * * * *"
HealthInterval == "*/5 * * * *"
\* cron.validate
ValidCron(expr) == expr \in {"*/30 * * * *", "*/10 * * * *", "*/5 * * * *"}
IntervalArguments == {"*/10 * * * *", "every ten minutes"}

NoTasks == [main |-> 0, healthCheck |-> 0]
TimerIds(timers) == {x.id : x \in timers}
\* A cron task object not yet among the started ones.
FreshTimer(ids) == CHOOSE i \in 1..(Cardinality(ids) + 1) : i \notin ids
\* task.stop() on the entries of this.tasks
StopTasks(timers, map, names) == {x \in timers : \A n \in names : map[n] # x.id}

\* start() past its guard: two cron tasks are created, stored and started, the
\* state becomes running, and the initial fetch is deferred by setTimeout.
StartTimers ==
  LET expr == IF refreshInterval = NULL THEN DefaultInterval ELSE refreshInterval
      m == FreshTimer(TimerIds(cronTimers))
      h == FreshTimer(TimerIds(cronTimers) \cup {m})
  IN /\ deferred < MaxDeferred
     /\ cronTimers' = cronTimers \cup {[id |-> m, name |-> "main", expr |-> expr],
                                       [id |-> h, name |-> "healthCheck", expr |-> HealthInterval]}
     /\ tasks' = [main |-> m, healthCheck |-> h]
     /\ schedulerIsRunning' = TRUE
     /\ deferred' = deferred + 1
     /\ UNCHANGED refreshInterval

Start_NoGuard ==
  /\ StartTimers
  /\ thrown' = "none"
  /\ UNCHANGED <<envVars, storeVars, fetchVars, health, adapterCall, sim>>
Start ==
  /\ IF schedulerIsRunning THEN UNCHANGED schedVars ELSE StartTimers
  /\ thrown' = "none"
  /\ UNCHANGED <<envVars, storeVars, fetchVars, health, adapterCall, sim>>

Stop ==
  /\ IF ~schedulerIsRunning
       THEN UNCHANGED schedVars
       ELSE /\ cronTimers' = StopTasks(cronTimers, tasks, {"main", "healthCheck"})
            /\ tasks' = NoTasks
            /\ schedulerIsRunning' = FALSE
            /\ UNCHANGED <<deferred, refreshInterval>>
  /\ thrown' = "none"
  /\ UNCHANGED <<envVars, storeVars, fetchVars, health, adapterCall, sim>>

UpdateRefreshInterval_StoreThenValidate(newInterval) ==
  /\ refreshInterval' = newInterval
  /\ thrown' = IF ValidCron(newInterval) THEN "none" ELSE "Invalid cron expression"
  /\ UNCHANGED <<schedulerIsRunning, tasks, cronTimers, deferred>>
  /\ UNCHANGED <<envVars, storeVars, fetchVars, health, adapterCall, sim>>
UpdateRefreshInterval_KeepOldTask(newInterval) ==
  /\ IF ~ValidCron(newInterval)
       THEN /\ thrown' = "Invalid cron expression"
            /\ UNCHANGED schedVars
       ELSE /\ thrown' = "none"
            /\ refreshInterval' = newInterval
            /\ IF schedulerIsRunning
                 THEN LET m == FreshTimer(TimerIds(cronTimers))
                      IN /\ cronTimers' = cronTimers \cup
                              {[id |-> m, name |-> "main", expr |-> newInterval]}
                         /\ tasks' = [tasks EXCEPT !.main = m]
                 ELSE UNCHANGED <<cronTimers, tasks>>
            /\ UNCHANGED <<schedulerIsRunning, deferred>>
  /\ UNCHANGED <<envVars, storeVars, fetchVars, health, adapterCall, sim>>
UpdateRefreshInterval(newInterval) ==
  /\ IF ~ValidCron(newInterval)
       THEN /\ thrown' = "Invalid cron expression"
            /\ UNCHANGED schedVars
       ELSE /\ thrown' = "none"
            /\ refreshInterval' = newInterval
            /\ IF schedulerIsRunning
                 THEN LET stopped == IF tasks.main # 0
                                       THEN StopTasks(cronTimers, tasks, {"main"})
                                       ELSE cronTimers
                          m == FreshTimer(TimerIds(stopped))
                      IN /\ cronTimers' = stopped \cup
                              {[id |-> m, name |-> "main", expr |-> newInterval]}
                         /\ tasks' = [tasks EXCEPT !.main = m]
                 ELSE UNCHANGED <<cronTimers, tasks>>
            /\ UNCHANGED <<schedulerIsRunning, deferred>>
  /\ UNCHANGED <<envVars, storeVars, fetchVars, health, adapterCall, sim>>

\* A started main cron task fires and its callback awaits fetchAllData.
MainTimerFire ==
  /\ \E x \in cronTimers : x.name = "main"
  /\ fetchAllData("timer")
  /\ UNCHANGED <<envVars, storeVars, schedVars, auxVars>>

\* A started health-check cron task fires and its callback awaits healthCheck.
HealthTimerFire ==
  /\ \E x \in cronTimers : x.name = "healthCheck"
  /\ healthCheck
  /\ UNCHANGED <<envVars, storeVars, fetchVars, schedVars, thrown, adapterCall, sim>>

\* The setTimeout callback of start() runs.
DeferredFire ==
  /\ deferred > 0
  /\ deferred' = deferred - 1
  /\ fetchAllData("timer")
  /\ UNCHANGED <<envVars, storeVars, schedulerIsRunning, tasks, cronTimers, refreshInterval, auxVars>>

\* getStatus(): the running flag and the keys of this.tasks.
getStatus ==
  [isRunning |-> schedulerIsRunning,
   activeTasks |-> {n \in {"main", "healthCheck"} : tasks[n] # 0},
   refreshInterval |-> IF refreshInterval = NULL THEN DefaultInterval ELSE refreshInterval,
   nextRun |-> IF schedulerIsRunning /\ tasks.main # 0
                 THEN "Next run calculated by cron" ELSE "Not scheduled"]

\* triggerRefresh() up to its first await: it throws when the scheduler is not
\* running, otherwise it awaits fetchAllData and rethrows what that rejects with.
TriggerRefresh_NoStateCheck ==
  /\ thrown' = "none"
  /\ fetchAllData("triggerRefresh")
  /\ UNCHANGED <<envVars, storeVars, schedVars, health, adapterCall, sim>>
TriggerRefresh ==
  /\ IF ~schedulerIsRunning
       THEN /\ thrown' = "Scheduler is not running"
            /\ UNCHANGED fetchVars
       ELSE /\ thrown' = "none"
            /\ fetchAllData("triggerRefresh")
  /\ UNCHANGED <<envVars, storeVars, schedVars, health, adapterCall, sim>>

\* What a triggerRefresh() call past its guard ends with, by the position of
\* the fetchAllData call it awaits: { success: true } once that call has
\* returned, be it after a cycle or at the skip, and the error it threw.
triggerRefresh_Outcome(call) ==
  IF call.pc \in {"done", "skipped"} THEN "success"
  ELSE IF call.pc = "failed" THEN "rejected"
  ELSE "pending"

----------------------------------------------------------------------------
(* Specifications *)

\* The subgraph starts or stops answering, or its data changes.
UpstreamChange ==
  /\ upstreamChanges < MaxUpstreamChanges
  /\ upstreamChanges' = upstreamChanges + 1
  /\ \/ \E d \in CycleRestakingResponses \ {subgraph.deposits} :
          subgraph' = [subgraph EXCEPT !.deposits = d]
     \/ \E o \in CycleValidatorResponses \ {subgraph.operators} :
          subgraph' = [subgraph EXCEPT !.operators = o]
  /\ UNCHANGED <<clock, storeVars, fetchVars, schedVars, auxVars>>

\* The process after its modules are loaded.
InitProcess ==
  /\ clock = StartTime
  /\ upstreamChanges = 0
  /\ db = "null"
  /\ database = EmptyDatabase
  /\ pendingOps = {}
  /\ lastOp = NoOp
  /\ opCount = 0
  /\ initsInFlight = 0
  /\ isRunning = FALSE
  /\ calls = [c \in CallIds |-> IdleCall]
  /\ schedulerIsRunning = FALSE
  /\ tasks = NoTasks
  /\ cronTimers = {}
  /\ deferred = 0
  /\ refreshInterval = NULL
  /\ thrown = "none"
  /\ health = IdleHealth
  /\ adapterCall = NoAdapterCall
  /\ sim = NoSim

Init ==
  /\ InitProcess
  /\ subgraph \in [deposits : CycleRestakingResponses, operators : CycleValidatorResponses]

CycleStep ==
  \/ \E c \in CallIds, ok \in BOOLEAN : CycleInitOpen(c, ok)
  \/ \E c \in CallIds, ok \in BOOLEAN : CycleInitTables(c, ok)
  \/ \E c \in CallIds, t \in TaskNames :
       TaskFetched(c, t)
  \/ \E c \in CallIds, t \in TaskNames : TaskPersist(c, t)

\* The server process: scheduler API, timers and refresh cycles.
HealthStep ==
  \/ HealthEigenLayerSettled
  \/ \E answer \in LidoAnswers : HealthLidoSettled(answer)

Next ==
  \/ HealthTimerFire
  \/ HealthStep
  \/ Start
  \/ Stop
  \/ \E e \in IntervalArguments : UpdateRefreshInterval(e)
  \/ MainTimerFire
  \/ DeferredFire
  \/ TriggerRefresh
  \/ CycleStep

\* The scheduler's process: the endpoint answers the deposits query and fails
\* the operators query, so a cycle has a task fed by the endpoint and one fed
\* by the fallback.
InitScheduler ==
  /\ InitProcess
  /\ subgraph = [deposits |-> Envelope("absent", << Deposit("0xaaa", 6000000, 601, YesterdaySeconds) >>),
                 operators |-> Unreachable]

Spec == InitScheduler /\ [][Next]_vars

\* dataFetcher.fetchAllData() called by any client of the module.
Invoke ==
  /\ fetchAllData("direct")
  /\ UNCHANGED <<envVars, storeVars, schedVars, auxVars>>

\* The orchestrator alone, under arbitrary calls of fetchAllData.
CycleNext ==
  \/ UpstreamChange
  \/ Invoke
  \/ CycleStep

SpecCycles == Init /\ [][CycleNext]_vars

\* Every awaited operation of a cycle settles: the HTTP requests carry a
\* timeout and the SQLite callbacks always run.
FairSpec == SpecCycles /\ WF_vars(CycleStep)

\* The orchestrator under calls of fetchAllData and healthCheck.
HealthNext ==
  \/ Invoke
  \/ CycleStep
  \/ InvokeHealthCheck
  \/ HealthStep

SpecHealth == Init /\ [][HealthNext]_vars

\* The adapters under direct calls, on any answer of the subgraph endpoint.
InitAdapters ==
  /\ InitProcess
  /\ subgraph \in [deposits : AnyRestakingResponses, operators : AnyValidatorResponses]

AdapterNext ==
  \/ \E fn \in AdapterFunctions : AdapterInvoke(fn)
  \/ \E answer \in LidoAnswers : AdapterSettle(answer)

SpecAdapters == InitAdapters /\ [][AdapterNext]_vars

\* The reward simulator under direct calls.
SimulatorNext ==
  \/ \E restakers \in SimSnapshots, rnd \in RandomStreams : SimulateInvoke(restakers, rnd)
  \/ \E rnd \in RandomStreams : SimulateAgain(rnd)

InitSimulator ==
  /\ InitProcess
  /\ subgraph = [deposits |-> Unreachable, operators |-> Unreachable]

SpecSimulator == InitSimulator /\ [][SimulatorNext]_vars

\* The store under arbitrary calls of its exported functions.
StoreNext ==
  \/ Tick
  \/ \E call \in StoreCalls : StoreCallIssue(call)
  \/ \E call \in StoreCalls : StoreCallComplete(call)
  \/ \E ok \in BOOLEAN : InitializeOpen(ok)
  \/ \E ok \in BOOLEAN : InitializeTables(ok)
  \/ Close

InitStore == Init /\ subgraph = [deposits |-> Unreachable, operators |-> Unreachable]
SpecStore == InitStore /\ [][StoreNext]_vars

----------------------------------------------------------------------------
(* Properties of the orchestrator *)

CyclesInFlight == {c \in CallIds : InCycle(c)}

\* C1: whatever the interleaving of main-timer firings, the deferred initial
\* refresh and manual triggerRefresh calls, at most one fetchAllData body is
\* between setting and clearing the in-progress flag.
C1_OneCycleInFlight == Cardinality(CyclesInFlight) <= 1

\* A second trigger arrived while a cycle was in flight.
C1_TriggerDuringCycle ==
  \E c, d \in CallIds : InCycle(c) /\ calls[d].pc = "skipped"

\* C2: a fetchAllData call made while a cycle is in progress returns at once
\* (position "skipped", never "failed"), touches neither the connection nor
\* the tables, leaves the flag set and the running cycle as it is, and stays
\* skipped for ever: no task of it is ever started.
C2_SkippedCallDoesNothing ==
  [][\A c \in CallIds :
       /\ (isRunning /\ calls[c].pc = "idle" /\ calls'[c].pc # "idle") =>
            /\ calls'[c] = [calls[c] EXCEPT !.pc = "skipped", !.origin = calls'[c].origin]
            /\ isRunning'
            /\ UNCHANGED storeVars
            /\ \A d \in CallIds \ {c} : calls'[d] = calls[d]
       /\ calls[c].pc = "skipped" => calls'[c] = calls[c]]_vars

\* A call was skipped and the cycle it met has finished since.
C2_SkippedAndCycleOver ==
  \E c, d \in CallIds : calls[c].pc = "skipped" /\ calls[d].pc = "done" /\ ~isRunning

\* C3: under fair scheduling of the awaited operations, every cycle that set
\* the flag clears it, whether it ends normally or initializeDatabase throws;
\* the flag is set exactly while a cycle is in flight, and a call that finds
\* it clear is admitted.
C3_FlagEventuallyCleared ==
  /\ \A c \in CallIds : InCycle(c) ~> ~isRunning
  /\ [](isRunning <=> CyclesInFlight # {})
  /\ [][\A c \in CallIds :
         (~isRunning /\ calls[c].pc = "idle" /\ calls'[c].pc # "idle") =>
            (calls'[c].pc = "mkdir" /\ isRunning')]_vars

\* After a cycle whose initialization threw, the next call was admitted and
\* ran to its end.
C3_AdmittedAfterFailure ==
  \E c, d \in CallIds : calls[c].pc = "failed" /\ calls[d].pc = "done" /\ ~isRunning

TaskStarted(c, t) == calls[c].task[t].pc \in {"fetching", "writing", "settled"}
TaskSettled(c, t) == calls[c].task[t].pc = "settled"

\* C4: in an admitted cycle whose initialization succeeded all five tasks are
\* started together, the cycle is over only when all five have settled, every
\* task settles with success whatever the errors of the others, a step of one
\* task leaves the other tasks as they are, and a settled result stays.
C4_TasksIsolated ==
  /\ [](\A c \in CallIds :
          /\ calls[c].pc = "tasks" => \A t \in TaskNames : TaskStarted(c, t)
          /\ calls[c].pc = "done" => \A t \in TaskNames : TaskSettled(c, t)
          /\ calls[c].pc \notin {"tasks", "done"} =>
               \A t \in TaskNames : calls[c].task[t].pc = "notStarted"
          /\ \A t \in TaskNames : TaskSettled(c, t) => calls[c].task[t].result.success)
  /\ [][\A c \in CallIds : \A t \in TaskNames :
         /\ TaskSettled(c, t) => calls'[c].task[t] = calls[c].task[t]
         /\ (TaskStarted(c, t) /\ calls'[c].task[t] # calls[c].task[t]) =>
              \A u \in TaskNames \ {t} : calls'[c].task[u] = calls[c].task[u]]_vars

\* A finished cycle in which the restaking task had a rejected write while the
\* validator and rewards tasks wrote all their records.
C4_OneTaskWithErrors ==
  \E c \in CallIds :
    /\ calls[c].pc = "done"
    /\ calls[c].task["restakingData"].result.errors > 0
    /\ calls[c].task["validatorData"].result.errors = 0
    /\ calls[c].task["validatorData"].result.inserted > 0
    /\ calls[c].task["rewardsData"].result.inserted > 0

\* A record the table of task t rejects: a NOT NULL column has no value.
Malformed(t, rec) ==
  CASE t = "restakingData" -> rec.userAddress = NULL \/ rec.amountRestaked = NoAmount
    [] t = "validatorData" -> rec.operatorAddress = NULL
    [] t = "rewardsData" ->
         rec.userAddress = NULL \/ rec.validatorAddress = NULL \/ rec.rewardAmount = NoAmount
    [] t = "slashingData" -> rec.operatorAddress = NULL \/ rec.slashedAmount = NoAmount

\* The batch the adapter made of the answer task t of call c received.
BatchOf(c, t) == AdapterBatch(t, calls[c].task[t].resp, clock, RandomStreamOf(c))

\* C5: a settled persisting task has attempted one write per record of its
\* batch, whatever failed before, and its error count is the number of
\* rejected writes; in the restaking and validator loops a rejection with a
\* duplicate-key message is not counted, any other rejection counts one.
C5_EveryRecordAttempted ==
  /\ \A c \in CallIds : \A t \in PersistingTasks :
       TaskSettled(c, t) =>
         LET r == calls[c].task[t].result
             batch == BatchOf(c, t)
         IN /\ r.attempts = Len(batch)
            /\ r.errors = Cardinality({k \in 1..Len(batch) : Malformed(t, batch[k])})
            /\ r.inserted = r.attempts - r.errors
  /\ \A t \in {"restakingData", "validatorData"} :
       LET zero == [database |-> database, inserted |-> 0, errors |-> 0,
                    attempts |-> 0, swallowed |-> 0]
       IN /\ CountOutcome(t, zero, Rejected(database,
                 "SQLITE_CONSTRAINT: UNIQUE constraint failed")).errors = 0
          /\ CountOutcome(t, zero, Rejected(database,
                 "SQLITE_CONSTRAINT: NOT NULL constraint failed")).errors = 1

\* A restaking batch whose first record was rejected and whose second was
\* written.
C5_FailureThenSuccess ==
  \E c \in CallIds :
    /\ TaskSettled(c, "restakingData")
    /\ Len(BatchOf(c, "restakingData")) = 2
    /\ Malformed("restakingData", BatchOf(c, "restakingData")[1])
    /\ calls[c].task["restakingData"].result.errors = 1
    /\ calls[c].task["restakingData"].result.inserted = 1

KeyedTasks == {"restakingData", "validatorData"}

\* Cycle d is the first to finish after cycle c, and both received the same
\* answers to the restaker and the validator query.
RepeatedCycle(c, d) ==
  /\ c < d
  /\ calls[c].pc = "done"
  /\ calls[d].pc = "done"
  /\ \A e \in CallIds : (c < e /\ e < d) => calls[e].pc \in {"skipped", "failed"}
  /\ \A t \in KeyedTasks : calls[c].task[t].resp = calls[d].task[t].resp

\* C6 as stated: a second cycle with the same upstream restaker and validator
\* data leaves both row counts unchanged and reports zero errors for both.
C6_RepeatReportsZeroErrors ==
  \A c, d \in CallIds :
    RepeatedCycle(c, d) =>
      /\ calls[d].rows = calls[c].rows
      /\ \A t \in KeyedTasks : calls[d].task[t].result.errors = 0

\* C6, amended: a second cycle with the same upstream restaker and validator
\* data leaves both row counts unchanged and reports for both sources the
\* errors of the first cycle, one per record the store rejects as malformed:
\* zero when every record is well-formed, and none for a key already stored.
C6_RepeatReportsSameErrors ==
  \A c, d \in CallIds :
    RepeatedCycle(c, d) =>
      /\ calls[d].rows = calls[c].rows
      /\ \A t \in KeyedTasks :
           /\ calls[d].task[t].result.errors = calls[c].task[t].result.errors
           /\ calls[d].task[t].result.errors =
                Cardinality({k \in 1..Len(BatchOf(d, t)) : Malformed(t, BatchOf(d, t)[k])})

\* Two cycles on the same live answer: the second rewrote the stored key.
C6_RepeatedOnLiveData ==
  \E c, d \in CallIds :
    /\ RepeatedCycle(c, d)
    /\ calls[d].task["restakingData"].resp.kind = "envelope"
    /\ calls[d].task["restakingData"].result.inserted > 0
    /\ calls[d].rows.restakers > 0

----------------------------------------------------------------------------
(* Properties of the store *)

\* The store call completed by this step, if any.
CompletedNow == lastOp'.n # lastOp.n
\* The loop whose records an insert function takes.
TaskOf(op) ==
  CASE op = "insertRestaker" -> "restakingData"
    [] op = "insertValidator" -> "validatorData"
    [] op = "insertReward" -> "rewardsData"
    [] op = "insertSlashEvent" -> "slashingData"
WellFormed(op, rec) ==
  op \in {"getAllRestakers", "getAllValidators"} \/ ~Malformed(TaskOf(op), rec)

\* C7 as stated: at most one restaker row per user address and one validator
\* row per operator address, and after a successful insertRestaker or
\* insertValidator the row of that key holds the fields of the record just
\* written, the event timestamp among them.
C7_RowHoldsWrittenRecord ==
  /\ \A x, y \in database.restakers : x.userAddress = y.userAddress => x = y
  /\ \A x, y \in database.validators : x.operatorAddress = y.operatorAddress => x = y
  /\ (lastOp.ok /\ lastOp.op = "insertRestaker") =>
       \E x \in database.restakers :
         /\ x.userAddress = lastOp.rec.userAddress
         /\ x.amountRestaked = lastOp.rec.amountRestaked
         /\ x.targetAVSValidatorAddress = lastOp.rec.targetAVSValidatorAddress
         /\ x.strategy = lastOp.rec.strategy
         /\ x.blockNumber = lastOp.rec.blockNumber
         /\ x.transactionHash = lastOp.rec.transactionHash
         /\ x.timestamp = lastOp.rec.timestamp
  /\ (lastOp.ok /\ lastOp.op = "insertValidator") =>
       \E x \in database.validators :
         /\ x.operatorAddress = lastOp.rec.operatorAddress
         /\ x.operatorId = lastOp.rec.operatorId
         /\ x.totalDelegatedStake = lastOp.rec.totalDelegatedStake
         /\ x.validatorStatus = lastOp.rec.validatorStatus
         /\ x.metadataURI = lastOp.rec.metadataURI

\* C8: a queued insertSlashEvent of a well-formed record succeeds on an
\* initialized store and adds exactly one row even when no validator row has
\* its operator address, and no step changes or removes a slash_history or
\* rewards row.
C8_SlashEventsAppendOnly ==
  [][/\ database.slash_history \subseteq database'.slash_history
     /\ database.rewards \subseteq database'.rewards
     /\ (/\ CompletedNow
         /\ pendingOps' # pendingOps
         /\ lastOp'.op = "insertSlashEvent"
         /\ WellFormed(lastOp'.op, lastOp'.rec)
         /\ database.schema) =>
           /\ lastOp'.ok
           /\ Cardinality(database'.slash_history) = Cardinality(database.slash_history) + 1]_vars

\* A slash event was stored before the first validator row of its operator
\* was written.
C8_SlashBeforeValidator ==
  /\ lastOp.op = "insertValidator"
  /\ lastOp.ok
  /\ database.seq.validators = 1
  /\ \E x \in database.slash_history : x.operatorAddress = lastOp.rec.operatorAddress

\* An initializeDatabase call of a store client moves.
InitializeStep ==
  \/ initsInFlight' # initsInFlight
  \/ CompletedNow /\ lastOp'.op = "initializeDatabase"

\* C9: no step of an initializeDatabase call, however often it is called and
\* whatever calls are pending, changes a row or drops a pending call; tables
\* once created stay; and every queued call with a well-formed record that
\* runs on the created tables succeeds (getAllValidators counted while no
\* validator row is stored: with rows its failure lies in its own parsing of
\* the slash history, not in the tables).
C9_InitializeIdempotent ==
  [][/\ InitializeStep =>
          /\ \A t \in TableNames : database'[t] = database[t]
          /\ database'.seq = database.seq
          /\ pendingOps' = pendingOps
     /\ database.schema => database'.schema
     /\ (/\ CompletedNow
         /\ pendingOps' # pendingOps
         /\ WellFormed(lastOp'.op, lastOp'.rec)
         /\ (lastOp'.op = "getAllValidators" => database.validators = {})
         /\ database.schema) => lastOp'.ok]_vars

\* A repeated initializeDatabase completed while rows were stored and a call
\* of another caller was pending.
C9_ReinitializedWithRowsAndPending ==
  /\ lastOp.op = "initializeDatabase"
  /\ lastOp.ok
  /\ database.restakers # {}
  /\ pendingOps # {}

----------------------------------------------------------------------------
(* Properties of the scheduler *)

TimersNamed(n) == {x \in cronTimers : x.name = n}

\* C10: while the scheduler is running exactly one main and one health-check
\* cron task are started, they are the ones this.tasks holds, and getStatus
\* lists both; while it is not running no cron task is started and getStatus
\* lists none.
C10_TimersMatchState ==
  IF schedulerIsRunning
    THEN /\ Cardinality(TimersNamed("main")) = 1
         /\ Cardinality(TimersNamed("healthCheck")) = 1
         /\ \A x \in cronTimers : tasks[x.name] = x.id
         /\ getStatus.activeTasks = {"main", "healthCheck"}
    ELSE /\ cronTimers = {}
         /\ getStatus.activeTasks = {}

\* The interval was updated on a running scheduler, after its deferred
\* initial refresh had run.
C10_UpdatedWhileRunning ==
  /\ schedulerIsRunning
  /\ deferred = 0
  /\ \E x \in cronTimers : x.name = "main" /\ x.expr = "*/10 * * * *"

----------------------------------------------------------------------------
(* Scheduler API: triggerRefresh and updateRefreshInterval *)

\* C11: triggerRefresh() on a scheduler that is not running throws "Scheduler
\* is not running" and does nothing else: no fetchAllData call is made, the
\* store, the in-progress flag and the scheduler's state stay as they are; a
\* fetchAllData call made by triggerRefresh exists only if the scheduler was
\* running when it was made.
C11_TriggerWhenStoppedDoesNothing ==
  [][/\ (thrown' = "Scheduler is not running" /\ thrown' # thrown) =>
          /\ ~schedulerIsRunning
          /\ UNCHANGED <<storeVars, fetchVars, schedVars, envVars>>
     /\ \A c \in CallIds :
          (calls[c].origin # "triggerRefresh" /\ calls'[c].origin = "triggerRefresh") =>
             schedulerIsRunning /\ thrown' = "none"]_vars

\* triggerRefresh() threw on a stopped scheduler while the cycle of the
\* deferred initial refresh was still in flight.
C11_ThrownDuringCycle ==
  /\ thrown = "Scheduler is not running"
  /\ ~schedulerIsRunning
  /\ isRunning
  /\ \E c \in CallIds : InCycle(c)

\* C12: updateRefreshInterval with an expression cron.validate rejects throws
\* "Invalid cron expression" and changes nothing: the started cron tasks, the
\* entries of this.tasks, the running state and what getStatus reports are as
\* before, and no rejected expression ever becomes the interval or the
\* expression of a started task.
C12_InvalidIntervalChangesNothing ==
  [][/\ (thrown' = "Invalid cron expression" /\ thrown' # thrown) =>
          /\ UNCHANGED <<schedVars, storeVars, fetchVars, envVars>>
          /\ getStatus' = getStatus
     /\ refreshInterval' # NULL => ValidCron(refreshInterval')
     /\ \A x \in cronTimers' : ValidCron(x.expr)]_vars

\* A malformed expression was rejected on a running scheduler whose interval
\* had been updated before.
C12_RejectedAfterUpdate ==
  /\ thrown = "Invalid cron expression"
  /\ schedulerIsRunning
  /\ refreshInterval = "*/10 * * * *"
  /\ \E x \in cronTimers : x.name = "main" /\ x.expr = "*/10 * * * *"

\* C13: an accepted updateRefreshInterval that changes the interval of a
\* running scheduler leaves exactly one started main task, the new one with
\* the new expression, in the very step that stops the old one, which is
\* started no more; the health-check task is untouched. On a stopped
\* scheduler it starts no task and only stores the interval, which the main
\* task of the next start() runs on. No state of a running scheduler is
\* without a started main task.
C13_IntervalReplacedAtomically ==
  [][/\ refreshInterval' # refreshInterval =>
          /\ thrown' = "none"
          /\ schedulerIsRunning' = schedulerIsRunning
          /\ UNCHANGED <<storeVars, fetchVars, deferred>>
          /\ IF schedulerIsRunning
               THEN /\ {x \in cronTimers' : x.name = "main"} =
                         {[id |-> tasks'.main, name |-> "main", expr |-> refreshInterval']}
                    /\ {x \in cronTimers : x.name = "main"} \cap cronTimers' = {}
                    /\ {x \in cronTimers' : x.name = "healthCheck"} =
                         {x \in cronTimers : x.name = "healthCheck"}
                    /\ tasks'.healthCheck = tasks.healthCheck
               ELSE /\ cronTimers' = {}
                    /\ UNCHANGED <<cronTimers, tasks>>
     /\ (~schedulerIsRunning /\ schedulerIsRunning') =>
          \A x \in cronTimers' : x.name = "main" => x.expr = getStatus.refreshInterval
     /\ schedulerIsRunning' => Cardinality({x \in cronTimers' : x.name = "main"}) = 1]_vars

\* A running scheduler has its main task on the updated interval, the
\* health-check task still started, while a refresh cycle is in flight.
C13_ReplacedDuringCycle ==
  /\ schedulerIsRunning
  /\ thrown = "none"
  /\ isRunning
  /\ TimersNamed("main") = {[id |-> tasks.main, name |-> "main", expr |-> "*/10 * * * *"]}
  /\ Cardinality(TimersNamed("healthCheck")) = 1

----------------------------------------------------------------------------
(* Cycle summary and failure propagation *)

\* A summary carries, for each source, a success flag, an inserted count and
\* an error count.
IsSummary(v) ==
  /\ DOMAIN v = TaskNames
  /\ \A t \in TaskNames : {"success", "inserted", "errors"} \subseteq DOMAIN v[t]

\* C14: every call that executed a cycle hands its caller a summary with, for
\* each source, a success flag, an inserted count and an error count, be it as
\* its return value or at least as what it reports through logFetchResults.
C14_CycleReturnsSummary ==
  \A c \in CallIds :
    calls[c].pc = "done" =>
      \/ IsSummary(fetchAllData_Resolves(calls[c]))
      \/ IsSummary(logFetchResults(calls[c]))

\* C15: a triggerRefresh() call made on a running scheduler never fails: no
\* fetchAllData call awaited by triggerRefresh ends by throwing, whatever the
\* endpoint answers and whether or not initializeDatabase succeeds.
C15_TriggerNeverRejects ==
  \A c \in CallIds : calls[c].origin = "triggerRefresh" => calls[c].pc # "failed"

----------------------------------------------------------------------------
(* Health check *)

\* C16: the line healthCheck reports for a source tells whether the source
\* was answered by its upstream or from the fallback data: it says healthy
\* exactly when the upstream call did not fail.
C16_FallbackDistinguishable ==
  /\ Len(health.log) >= 1 => (health.log[1].healthy <=> ~AdapterFails(health.resp))
  /\ Len(health.log) >= 2 =>
       (health.log[2].healthy <=>
          ~(LidoFails(health.lido.metrics) \/ LidoFails(health.lido.rewards)))

\* C17: a healthCheck run calls fetchRestakingData once and fetchLidoData
\* once, and none of its steps writes to the store or touches the in-progress
\* flag or a fetchAllData call: a cycle in flight keeps its position, its
\* results and its rows across every step of a health check.
C17_HealthCheckOnlyFetches ==
  [][/\ health' # health => UNCHANGED <<storeVars, fetchVars, schedVars>>
     /\ health'.fetches.eigenLayer <= 1 /\ health'.fetches.lido <= 1
     /\ health'.pc = "done" =>
          /\ health'.fetches = [eigenLayer |-> 1, lido |-> 1]
          /\ Len(health'.log) = 2]_vars

\* A health check has ended while a cycle is in flight that has written the
\* rows of one task and is about to write those of another.
C17_CheckedDuringCycle ==
  /\ health.pc = "done"
  /\ isRunning
  /\ db = "open"
  /\ \E c \in CallIds : \E t \in TaskNames :
       /\ calls[c].pc = "tasks"
       /\ calls[c].task[t].pc = "writing"
       /\ \E u \in PersistingTasks :
            calls[c].task[u].pc = "settled" /\ calls[c].task[u].result.inserted > 0

----------------------------------------------------------------------------
(* Adapters *)

\* The failure outcomes of a request to the subgraph: the endpoint is not
\* reachable, the request times out, the body is no envelope, or the envelope
\* carries errors.
UpstreamFailure(resp) ==
  \/ resp.kind \in {"unreachable", "timeout", "malformed"}
  \/ resp.kind = "envelope" /\ resp.errors = "nonempty"

\* C18: whenever the request fails in one of these ways, fetchRestakingData
\* resolves with the two records of getMockRestakingData and
\* fetchValidatorData with the two of getMockValidatorData; no call of them
\* or of fetchLidoData ends by throwing.
C18_FailureYieldsFallback ==
  adapterCall.pc = "settled" =>
    /\ ~adapterCall.raised
    /\ (adapterCall.fn = "fetchRestakingData" /\ UpstreamFailure(adapterCall.resp)) =>
         /\ adapterCall.batch = getMockRestakingData(clock)
         /\ Len(adapterCall.batch) = 2
    /\ (adapterCall.fn = "fetchValidatorData" /\ UpstreamFailure(adapterCall.resp)) =>
         /\ adapterCall.batch = getMockValidatorData
         /\ Len(adapterCall.batch) = 2

\* fetchRestakingData has settled on an envelope that carried errors.
C18_SettledOnErrorPayload ==
  /\ adapterCall.pc = "settled"
  /\ adapterCall.fn = "fetchRestakingData"
  /\ adapterCall.resp = ErrorEnvelope("nonempty")

\* C19: whatever the endpoint answers, an answer with no deposits or no
\* operators included, the collection fetchRestakingData or
\* fetchValidatorData resolves with has at least one record.
C19_CollectionNonEmpty ==
  (adapterCall.pc = "settled" /\ adapterCall.fn \in {"fetchRestakingData", "fetchValidatorData"}) =>
     Len(adapterCall.batch) > 0

\* The fallback data of an adapter function.
FallbackOf(fn) ==
  IF fn = "fetchRestakingData" THEN getMockRestakingData(clock) ELSE getMockValidatorData

\* C20: on an envelope, fetchRestakingData and fetchValidatorData resolve
\* with the fallback data exactly when the errors array of the envelope is
\* non-empty; an envelope with a data payload and an empty errors array is
\* normalized from its data.
C20_FallbackIffErrorsNonEmpty ==
  (/\ adapterCall.pc = "settled"
   /\ adapterCall.fn \in {"fetchRestakingData", "fetchValidatorData"}
   /\ adapterCall.resp.kind = "envelope"
   /\ adapterCall.resp.hasData \/ adapterCall.resp.errors = "nonempty") =>
     (adapterCall.batch = FallbackOf(adapterCall.fn) <=> adapterCall.resp.errors = "nonempty")

----------------------------------------------------------------------------
(* Reward simulator *)

\* The restakers of a snapshot whose per-period reward, 0.0001 of the staked
\* amount, is not below 0.001 ether.
NotBelowThreshold(r) == r.amountRestaked >= MinRewardMicroEther * RewardRateDivisor
Material(restakers) == SelectSeq(restakers, NotBelowThreshold)

\* C21: simulateRewards returns, restaker after restaker, 30 rewards for each
\* restaker whose per-period reward is not below 0.001 ether and none for the
\* others; the i-th reward of a restaker (i = 0..29) carries the restaker's
\* user address and target validator address and the time i days before now.
C21_ThirtyRewardsPerRestaker ==
  sim.pc # "idle" =>
    /\ Len(sim.first) = LookbackDays * Len(Material(sim.restakers))
    /\ \A k \in 1..Len(Material(sim.restakers)) : \A i \in 0..(LookbackDays - 1) :
         LET r == Material(sim.restakers)[k]
             w == sim.first[(k - 1) * LookbackDays + i + 1]
         IN /\ w.userAddress = r.userAddress
            /\ w.validatorAddress = r.targetAVSValidatorAddress
            /\ w.timestamp = IsoTime(sim.now - i * oneDay)

\* C22: two calls of simulateRewards on the same restaker snapshot at the same
\* Date.now() return the same rewards, field for field, transactionHash
\* included.
C22_SimulatorDeterministic ==
  sim.pc = "twice" => sim.second = sim.first

----------------------------------------------------------------------------
(* Reads of the store *)

\* C23: on an initialized store getAllValidators resolves with one entry per
\* validator row, in descending numeric order of totalDelegatedStake, each
\* with exactly the slash_history rows of its operator address as its slash
\* history (none when the operator has no slash row).
C23_ListValidatorsComplete ==
  (db = "open" /\ database.schema) =>
    LET out == getAllValidators(db, database)
    IN /\ out.ok
       /\ Len(out.rows) = Cardinality(database.validators)
       /\ \A v \in database.validators :
            \E i \in 1..Len(out.rows) :
              /\ out.rows[i].operatorAddress = v.operatorAddress
              /\ out.rows[i].totalDelegatedStake = v.totalDelegatedStake
              /\ out.rows[i].slashHistory = SlashRowsOf(database, v)
       /\ \A i, j \in 1..Len(out.rows) :
            i < j => out.rows[i].totalDelegatedStake >= out.rows[j].totalDelegatedStake

----------------------------------------------------------------------------
(* Scheduler after stop() *)

\* C24: while the scheduler is stopped no timer of it starts a refresh cycle:
\* a fetchAllData call made by a cron callback or by the deferred initial
\* refresh of start() begins a cycle only when the scheduler is running.
C24_NoCycleAfterStop ==
  [][\A c \in CallIds :
       (calls[c].pc = "idle" /\ calls'[c].pc = "mkdir" /\ calls'[c].origin = "timer") =>
          schedulerIsRunning]_vars

----------------------------------------------------------------------------
(* Rows written by a cycle *)

\* The only call made so far has run its cycle to the end and no insert of it
\* was rejected: every row of the store was written by that cycle.
OnlyCycleDoneWithoutErrors(c) ==
  /\ calls[c].pc = "done"
  /\ \A d \in CallIds \ {c} : calls[d].pc = "idle"
  /\ \A t \in PersistingTasks : calls[c].task[t].result.errors = 0

\* C25: at the end of a cycle without write errors every reward row the
\* cycle wrote has the user address of a restaker row the cycle wrote: the
\* rewards were derived from the restakers the restaking task persisted.
C25_RewardsFromPersistedSnapshot ==
  \A c \in CallIds :
    OnlyCycleDoneWithoutErrors(c) =>
      \A w \in database.rewards :
        \E x \in database.restakers : x.userAddress = w.userAddress

\* The deposits of staker u in the answer the restaking task of call c got.
DepositsOf(c, u) ==
  LET resp == calls[c].task["restakingData"].resp
  IN IF AdapterFails(resp) THEN {}
     ELSE {resp.data[k] : k \in {j \in 1..Len(resp.data) : resp.data[j].staker = u}}

\* C26: when the restaking batch of a cycle holds several deposits of one
\* user address, the restaker row of that address after the cycle is the
\* deposit with the greatest block timestamp among them.
C26_LatestDepositKept ==
  \A c \in CallIds :
    OnlyCycleDoneWithoutErrors(c) =>
      \A u \in Users :
        \A d \in DepositsOf(c, u) :
          (\A e \in DepositsOf(c, u) : e.blockTimestamp <= d.blockTimestamp) =>
             \E x \in database.restakers :
               /\ x.userAddress = u
               /\ x.blockNumber = d.blockNumber
               /\ x.amountRestaked = d.amount

\* C27: the event time survives the round trip through the store: after a
\* successful insertRestaker the entry getAllRestakers returns for the address
\* has the timestamp of the record written, and after a successful
\* insertReward the entry getRewardsByAddress returns for the reward has the
\* timestamp of the record written.
C27_TimestampRoundTrip ==
  /\ (lastOp.ok /\ lastOp.op = "insertRestaker") =>
       \E x \in getAllRestakers("open", database).rows :
         /\ x.userAddress = lastOp.rec.userAddress
         /\ x.timestamp = lastOp.rec.timestamp
  /\ (lastOp.ok /\ lastOp.op = "insertReward") =>
       \E x \in getRewardsByAddress("open", database, lastOp.rec.userAddress).rewardTimestamps :
         /\ x.transactionHash = lastOp.rec.transactionHash
         /\ x.timestamp = lastOp.rec.timestamp

\* The rows of the four tables.
RowsOf(D) == <<D.restakers, D.validators, D.slash_history, D.rewards>>

\* C28: a step of a cycle changes rows only while the in-progress flag is set
\* and a call is past its initializeDatabase on an open connection with the
\* tables created; the tasks of a call, and with them its adapter calls, start
\* only in the step in which its initialization succeeds; a call whose
\* initialization fails has started no task and the step that fails it
\* writes nothing.
C28_WritesInsideInitializedCycle ==
  [][/\ RowsOf(database') # RowsOf(database) =>
          /\ isRunning
          /\ db = "open" /\ database.schema
          /\ \E c \in CallIds : calls[c].pc = "tasks"
     /\ \A c \in CallIds :
          /\ (\E t \in TaskNames : calls[c].task[t].pc = "notStarted"
                                     /\ calls'[c].task[t].pc # "notStarted") =>
               /\ calls[c].pc = "createTables" /\ calls'[c].pc = "tasks"
               /\ isRunning /\ db' = "open" /\ database'.schema
          /\ calls'[c].pc = "failed" =>
               /\ \A t \in TaskNames : calls'[c].task[t].pc = "notStarted"
               /\ calls[c].pc # "failed" => RowsOf(database') = RowsOf(database)]_vars

\* The initialization of one call failed and a later call is writing rows.
C28_FailedThenWriting ==
  /\ isRunning
  /\ database.restakers # {}
  /\ \E c, d \in CallIds :
       /\ calls[c].pc = "failed"
       /\ calls[d].pc = "tasks"
       /\ \E t \in PersistingTasks : calls[d].task[t].pc = "writing"

----------------------------------------------------------------------------
(* Outcome of triggerRefresh *)

\* C29: a triggerRefresh() call resolves with success only when the
\* fetchAllData call it made has run a refresh cycle to its end, never when
\* that call was skipped because another cycle was in flight.
C29_SuccessMeansCycleRan ==
  \A c \in CallIds :
    (calls[c].origin = "triggerRefresh" /\ triggerRefresh_Outcome(calls[c]) = "success") =>
       calls[c].pc = "done"

----------------------------------------------------------------------------
(* Counters of a task *)

\* C30: at the end of the first cycle on an empty store the inserted count of
\* each persisting task is the number of rows its table gained, and for every
\* persisting task inserted count, error count and swallowed duplicates add
\* up to the number of records of its batch.
C30_InsertedCountsNewRows ==
  \A c \in CallIds :
    (calls[c].pc = "done" /\ \A d \in CallIds \ {c} : calls[d].pc = "idle") =>
      /\ calls[c].task["restakingData"].result.inserted = Cardinality(database.restakers)
      /\ calls[c].task["validatorData"].result.inserted = Cardinality(database.validators)
      /\ calls[c].task["rewardsData"].result.inserted = Cardinality(database.rewards)
      /\ \A t \in PersistingTasks :
           LET r == calls[c].task[t].result
           IN r.inserted + r.errors + r.swallowed = r.attempts

====
